---- MODULE Spec2Model ----
(***************************************************************************)
(* Request lifecycle of the chat front-end (src/script.js).                *)
(*                                                                         *)
(* Text is modelled as a sequence of tokens: a token is either one piece   *)
(* of user/API supplied text, a single blank " ", or one literal of the    *)
(* source taken whole.  String concatenation is \o, String.trim() is Trim. *)
(* An absent value (undefined, null) and the empty string are both <<>>:   *)
(* the source only ever tests such values for truthiness.                  *)
(*                                                                         *)
(* Every call of sendMessage that is accepted creates one closure          *)
(* (typingIndicator, controller, timeoutId, promise chain); the closures   *)
(* are the elements of the sequence turns.  Promise reactions are          *)
(* microtasks: while one is queued no event handler or timer can run.      *)
(***************************************************************************)
EXTENDS Integers, Sequences, FiniteSets, TLC

\* Number of accepted submissions explored.
MaxTurns == 2

\* ------------------------------------------------------------------ text
Blank == " "

RECURSIVE TrimLeft(_)
TrimLeft(s) ==
    IF s # <<>> /\ Head(s) = Blank THEN TrimLeft(Tail(s)) ELSE s

RECURSIVE TrimRight(_)
TrimRight(s) ==
    IF s # <<>> /\ s[Len(s)] = Blank
    THEN TrimRight(SubSeq(s, 1, Len(s) - 1))
    ELSE s

\* A trim that was forgotten.
TrimNone(s) == s

\* String.prototype.trim
Trim(s) == TrimRight(TrimLeft(s))

\* ------------------------------------------------------- literals of the source
KeyRequiredMsg ==
    <<"Gemini API key is required. Please enter it and click \"Save Key\".">>
NoReplyMsg == <<"Sorry, I couldn't generate a response. Please try again.">>
TimeoutMsg == <<"The request timed out. Please try again.">>
FailureMsg == <<"An error occurred while contacting the Gemini service.">>
HintMsg == <<" Tip: Save your Gemini API key to proceed.">>
MaskText == <<"********">>

\* ------------------------------------------------------- values the environment supplies
\* What the user can have in the message field when sendMessage runs.
UserInputs == { <<>>, <<Blank>>, <<Blank, "Hello", Blank>> }

\* What the user can type into the key field.
TokenInputs == { <<>>, <<Blank, "key1">> }

\* Values localStorage can hold under 'gemini_api_key' at page load.
StoredAtLoad == { <<>>, <<"key1">> }

\* A part of candidates[0].content.parts: isObj = FALSE is a null entry,
\* text = <<>> is a part without text.
Part(isObj, text) == [isObj |-> isObj, text |-> text]

\* A parsed body: data.error (hasError, errMessage) and data.candidates
\* (isArray, then one record per candidate with its content.parts).
Data(hasError, errMessage, isArray, cands) ==
    [hasError |-> hasError, errMessage |-> errMessage,
     isArray |-> isArray, candidates |-> cands]

Cand(hasParts, parts) == [hasParts |-> hasParts, parts |-> parts]

DataReply ==
    Data(FALSE, <<>>, TRUE,
         << Cand(TRUE, << Part(TRUE, <<"Hi">>), Part(TRUE, <<Blank, "there", Blank>>) >>) >>)
DataNoCandidates == Data(FALSE, <<>>, TRUE, <<>>)
DataEmptyObject == Data(FALSE, <<>>, FALSE, <<>>)
DataNoParts == Data(FALSE, <<>>, TRUE, << Cand(FALSE, <<>>) >>)
DataBlankText ==
    Data(FALSE, <<>>, TRUE, << Cand(TRUE, << Part(TRUE, <<Blank>>), Part(TRUE, <<>>) >>) >>)
DataNullPart ==
    Data(FALSE, <<>>, TRUE, << Cand(TRUE, << Part(TRUE, <<"Hi">>), Part(FALSE, <<>>) >>) >>)
DataQuota == Data(TRUE, <<"quota exceeded">>, FALSE, <<>>)
DataErrorNoMessage == Data(TRUE, <<>>, FALSE, <<>>)

Datas ==
    { DataReply, DataNoCandidates, DataEmptyObject, DataNoParts, DataBlankText,
      DataNullPart, DataQuota, DataErrorNoMessage }

\* HTTP statuses the API answers with; response.ok is status in 200..299.
Statuses == { 200, 429 }

\* A response: its status and its body, which parses (json) to data or not.
Responses ==
    [status : Statuses, json : {TRUE}, data : Datas]
        \cup [status : Statuses, json : {FALSE}, data : {DataEmptyObject}]

NoResponse == [status |-> 0, json |-> FALSE, data |-> DataEmptyObject]

ResponseOk(r) == r.status >= 200 /\ r.status <= 299

\* ------------------------------------------------------- errors
Err(name, message) == [name |-> name, message |-> message]
NoError == Err("", <<>>)

\* ------------------------------------------------------------------ state
VARIABLES
    userInputValue,      \* userInput.value
    userInputDisabled,   \* userInput.disabled
    sendButtonDisabled,  \* sendButton.disabled
    chat,                \* children of chatContainer, oldest first
    GEMINI_API_KEY,      \* window.GEMINI_API_KEY (<<>> when undefined)
    storedKey,           \* localStorage['gemini_api_key'] (<<>> when absent)
    tokenInputValue,     \* tokenInput.value
    dataMasked,          \* tokenInput has data-masked = 'true'
    saveBtnText,         \* saveTokenBtn.textContent
    labelTimer,          \* a timer resetting saveBtnText is pending
    turns,               \* one closure per accepted sendMessage call
    timers,              \* calls whose timeoutId is still pending
    aborted              \* calls whose controller.signal is aborted

vars ==
    << userInputValue, userInputDisabled, sendButtonDisabled, chat,
       GEMINI_API_KEY, storedKey, tokenInputValue, dataMasked, saveBtnText,
       labelTimer, turns, timers, aborted >>

gateVars == << userInputDisabled, sendButtonDisabled >>
keyVars == << GEMINI_API_KEY, storedKey >>
tokenVars == << tokenInputValue, dataMasked, saveBtnText, labelTimer >>

TurnIds == 1..Len(turns)

\* Positions of a call's promise chain that are queued microtasks.
MicrotaskPcs == { "then1", "then2", "catch", "finally" }

\* A promise reaction is queued: it runs before any event or timer.
InMicrotask == \E t \in TurnIds : turns[t].pc \in MicrotaskPcs

\* A call still has a request outstanding or a reaction to run.
InFlight(t) == turns[t].pc \in { "fetching", "reading" } \cup MicrotaskPcs

\* ------------------------------------------------------------ Render Sink
MessageNode(text, sender) ==
    [cls |-> IF sender = "user" THEN "user-message" ELSE "ai-message",
     typing |-> FALSE, text |-> text, id |-> 0]

\* addMessage(text, sender): the chat after the call
addMessage(c, text, sender) == Append(c, MessageNode(text, sender))

TypingNode(t) ==
    [cls |-> "ai-message", typing |-> TRUE, text |-> <<"Typing...">>, id |-> t]

\* addTypingIndicator(): the chat after the call; the node is TypingNode(t)
addTypingIndicator(c, t) == Append(c, TypingNode(t))

\* typingIndicator.parentNode is set
Attached(c, t) == \E i \in 1..Len(c) : c[i] = TypingNode(t)

\* typingIndicator.parentNode.removeChild(typingIndicator)
removeChild(c, t) == SelectSeq(c, LAMBDA n : n # TypingNode(t))

\* ------------------------------------------------------------ Credential Store
\* localStorage.getItem('gemini_api_key'): the value, or an exception when
\* the storage is not accessible (the source guards for it at page load).
GetItem ==
    { [threw |-> FALSE, value |-> storedKey], [threw |-> TRUE, value |-> <<>>] }

\* window.GEMINI_API_KEY || localStorage.getItem('gemini_api_key')
ReadCredential ==
    IF GEMINI_API_KEY # <<>>
    THEN { [threw |-> FALSE, value |-> GEMINI_API_KEY] }
    ELSE GetItem

\* ------------------------------------------------------------------ Init
Init ==
    /\ userInputValue = <<>>
    /\ userInputDisabled = FALSE
    /\ sendButtonDisabled = FALSE
    /\ chat = <<>>
    /\ storedKey \in StoredAtLoad
    /\ \E rd \in GetItem :
          LET saved == IF rd.threw THEN <<>> ELSE rd.value IN
          /\ GEMINI_API_KEY = saved
          /\ tokenInputValue = IF saved # <<>> THEN MaskText ELSE <<>>
          /\ dataMasked = (saved # <<>>)
          /\ saveBtnText = IF saved # <<>> THEN "Key Saved" ELSE "Save Key"
    /\ labelTimer = FALSE
    /\ turns = <<>>
    /\ timers = {}
    /\ aborted = {}

\* ------------------------------------------------------------ user typing
\* The user (or script, autofill) changes the text of the message field.
TypeMessage ==
    /\ ~InMicrotask
    /\ \E v \in UserInputs :
          /\ v # userInputValue
          /\ userInputValue' = v
    /\ UNCHANGED << gateVars, chat, keyVars, tokenVars, turns, timers,
                    aborted >>

\* The user changes the text of the key field; data-masked is an attribute
\* and stays as it is.
TypeToken ==
    /\ ~InMicrotask
    /\ \E v \in TokenInputs :
          /\ v # tokenInputValue
          /\ tokenInputValue' = v
    /\ UNCHANGED << userInputValue, gateVars, chat, keyVars, dataMasked,
                    saveBtnText, labelTimer, turns, timers, aborted >>

\* ------------------------------------------------------------ sendMessage
\* The closure of one accepted call.  apiKey is the credential the request
\* was issued with; effects lists, in program order, what the call and its
\* promise reactions have done so far.
Turn(pc, message, effects) ==
    [pc |-> pc, message |-> message, response |-> NoResponse,
     data |-> DataEmptyObject, error |-> NoError, apiKey |-> << >>,
     effects |-> effects]

\* The in-flight guard left out.
InFlightGuardOff == FALSE

\* if (sendButton.disabled) return;
InFlightGuard == sendButtonDisabled

\* if (!message) return;
IsEmptyMessage(message) == message = <<>>

\* What the call has done when it reaches the credential read (lines 76-86).
StartEffects == << "user", "clearInput", "lock", "placeholder", "timer" >>

\* The body of sendMessage from the first addMessage on (lines 76-119), for
\* the trimmed text message and the outcome rd of the credential read.
Submit(message, rd) ==
    LET t == Len(turns) + 1
        shown == addTypingIndicator(addMessage(chat, message, "user"), t)
    IN  /\ userInputValue' = <<>>
        /\ timers' = timers \cup {t}
        /\ UNCHANGED << keyVars, tokenVars, aborted >>
        /\ IF rd.threw
           THEN \* the exception leaves sendMessage: nothing below line 89 runs
                /\ userInputDisabled' = TRUE
                /\ sendButtonDisabled' = TRUE
                /\ chat' = shown
                /\ turns' = Append(turns,
                                Turn("threw", message, Append(StartEffects, "threw")))
           ELSE IF rd.value = <<>>
           THEN \* lines 90-100
                /\ userInputDisabled' = FALSE
                /\ sendButtonDisabled' = FALSE
                /\ chat' = addMessage(
                              IF Attached(shown, t) THEN removeChild(shown, t) ELSE shown,
                              KeyRequiredMsg, "ai")
                /\ turns' = Append(turns,
                                Turn("done", message,
                                     StartEffects \o
                                        << "unplaceholder", "ai", "unlock", "focus" >>))
           ELSE \* lines 102-119
                /\ userInputDisabled' = TRUE
                /\ sendButtonDisabled' = TRUE
                /\ chat' = shown
                /\ turns' = Append(turns,
                                [Turn("fetching", message, Append(StartEffects, "fetch"))
                                    EXCEPT !.apiKey = rd.value])

\* sendMessage(), called by the click listener of sendButton and by the
\* keypress listener of userInput on Enter.
sendMessage ==
    /\ ~InMicrotask
    /\ IF InFlightGuard
       THEN UNCHANGED vars
       ELSE IF IsEmptyMessage(Trim(userInputValue))
       THEN UNCHANGED vars
       ELSE /\ Len(turns) < MaxTurns
            /\ \E rd \in ReadCredential : Submit(Trim(userInputValue), rd)

\* ------------------------------------------------------------ key handlers
\* The cached value is dropped although the storage refused the change.
SaveFailedKeyLost ==
    /\ saveBtnText' = "Save Failed"
    /\ labelTimer' = TRUE
    /\ GEMINI_API_KEY' = << >>
    /\ UNCHANGED << storedKey, tokenInputValue, dataMasked >>

\* The catch block of the save handler (lines 53-57).
SaveFailed ==
    /\ saveBtnText' = "Save Failed"
    /\ labelTimer' = TRUE
    /\ UNCHANGED << keyVars, tokenInputValue, dataMasked >>

\* Click on saveTokenBtn (lines 28-58).  removeItem and setItem throw when
\* the storage refuses the write.
SaveClick ==
    /\ ~InMicrotask
    /\ UNCHANGED << userInputValue, gateVars, chat, turns, timers, aborted >>
    /\ LET raw == Trim(tokenInputValue) IN
       IF raw = <<>>
       THEN \E threw \in BOOLEAN :
               IF threw
               THEN SaveFailed
               ELSE /\ storedKey' = <<>>
                    /\ GEMINI_API_KEY' = <<>>
                    /\ saveBtnText' = "Key Cleared"
                    /\ tokenInputValue' = <<>>
                    /\ dataMasked' = FALSE
                    /\ labelTimer' = TRUE
       ELSE IF dataMasked /\ raw = MaskText
       THEN /\ saveBtnText' = "Key Saved"
            /\ labelTimer' = TRUE
            /\ UNCHANGED << keyVars, tokenInputValue, dataMasked >>
       ELSE \E threw \in BOOLEAN :
               IF threw
               THEN SaveFailed
               ELSE /\ storedKey' = raw
                    /\ GEMINI_API_KEY' = raw
                    /\ tokenInputValue' = MaskText
                    /\ dataMasked' = TRUE
                    /\ saveBtnText' = "Saved"
                    /\ labelTimer' = TRUE

\* The callbacks of the timers of lines 38, 44, 52 and 56 all assign the
\* same label; labelTimer stands for "a reset of the label is due".
LabelTimer ==
    /\ ~InMicrotask
    /\ labelTimer
    /\ saveBtnText' = "Save Key"
    /\ labelTimer' = FALSE
    /\ UNCHANGED << userInputValue, gateVars, chat, keyVars, tokenInputValue,
                    dataMasked, turns, timers, aborted >>

\* ------------------------------------------------------------ network and timer
\* fetch resolves with a response; the first reaction starts at once and
\* waits in response.json() (lines 120-123).
FetchResolve(t) ==
    /\ ~InMicrotask
    /\ turns[t].pc = "fetching"
    /\ \E r \in Responses :
          turns' = [turns EXCEPT ![t].pc = "reading", ![t].response = r]
    /\ UNCHANGED << userInputValue, gateVars, chat, keyVars, tokenVars, timers,
                    aborted >>

\* A rejected fetch is issued again.
FetchRejectRetry(t) ==
    /\ ~InMicrotask
    /\ turns[t].pc = "fetching"
    /\ turns' = [turns EXCEPT ![t].effects = Append(turns[t].effects, "fetch")]
    /\ UNCHANGED << userInputValue, gateVars, chat, keyVars, tokenVars, timers,
                    aborted >>

\* fetch rejects: the network failed.
FetchReject(t) ==
    /\ ~InMicrotask
    /\ turns[t].pc = "fetching"
    /\ turns' = [turns EXCEPT ![t].pc = "catch",
                              ![t].error = Err("TypeError", <<"Failed to fetch">>)]
    /\ UNCHANGED << userInputValue, gateVars, chat, keyVars, tokenVars, timers,
                    aborted >>

\* response.json() settles: with the parsed body, or with a SyntaxError.
BodySettle(t) ==
    /\ ~InMicrotask
    /\ turns[t].pc = "reading"
    /\ turns' =
          IF turns[t].response.json
          THEN [turns EXCEPT ![t].pc = "then1", ![t].data = turns[t].response.data]
          ELSE [turns EXCEPT ![t].pc = "then1",
                             ![t].error = Err("SyntaxError", <<"Unexpected token">>)]
    /\ UNCHANGED << userInputValue, gateVars, chat, keyVars, tokenVars, timers,
                    aborted >>

\* One controller shared by all calls: the callback aborts the latest call.
TimerFireShared(t) ==
    LET u == Len(turns) IN
    /\ ~InMicrotask
    /\ t \in timers
    /\ timers' = timers \ {t}
    /\ aborted' = aborted \cup {u}
    /\ turns' =
          IF turns[u].pc = "fetching"
          THEN [turns EXCEPT ![u].pc = "catch",
                             ![u].error = Err("AbortError", <<"The user aborted a request.">>)]
          ELSE IF turns[u].pc = "reading"
          THEN [turns EXCEPT ![u].pc = "then1",
                             ![u].error = Err("AbortError", <<"The user aborted a request.">>)]
          ELSE turns
    /\ UNCHANGED << userInputValue, gateVars, chat, keyVars, tokenVars >>

\* The callback of setTimeout (line 86): controller.abort().  An outstanding
\* fetch rejects with an AbortError; a body still being read makes
\* response.json() reject with an AbortError.
TimerFire(t) ==
    /\ ~InMicrotask
    /\ t \in timers
    /\ timers' = timers \ {t}
    /\ aborted' = aborted \cup {t}
    /\ turns' =
          IF turns[t].pc = "fetching"
          THEN [turns EXCEPT ![t].pc = "catch",
                             ![t].error = Err("AbortError", <<"The user aborted a request.">>)]
          ELSE IF turns[t].pc = "reading"
          THEN [turns EXCEPT ![t].pc = "then1",
                             ![t].error = Err("AbortError", <<"The user aborted a request.">>)]
          ELSE turns
    /\ UNCHANGED << userInputValue, gateVars, chat, keyVars, tokenVars >>

\* ------------------------------------------------------------ promise reactions
Do(t, events) == turns[t].effects \o events

\* JSON.stringify(data.error) for an error object without message
StringifyError(data) == <<"{\"code\":0}">>

\* The message embedded in the body is not looked at.
ApiErrorMessageStatusOnly(r, data) == <<"HTTP ", ToString(r.status)>>

\* Lines 130-131: the text of the Error thrown for a failure status.
ApiErrorMessage(r, data) ==
    LET apiErr == IF data.hasError
                  THEN (IF data.errMessage # <<>> THEN data.errMessage
                                                 ELSE StringifyError(data))
                  ELSE <<>>
    IN  IF apiErr # <<>>
        THEN <<"API error: ">> \o apiErr
        ELSE <<"HTTP ", ToString(r.status)>>

\* The rest of the first reaction once response.json() has settled
\* (lines 124-134): it throws, or passes data on.
Then1(t) ==
    /\ turns[t].pc = "then1"
    /\ LET r == turns[t].response
           data == turns[t].data
       IN turns' =
            IF turns[t].error # NoError
            THEN [turns EXCEPT
                    ![t].pc = "catch",
                    ![t].error = Err("Error", <<"Invalid JSON from API (",
                                               ToString(r.status), ")">>)]
            ELSE IF ~ResponseOk(r)
            THEN [turns EXCEPT ![t].pc = "catch",
                               ![t].error = Err("Error", ApiErrorMessage(r, data))]
            ELSE [turns EXCEPT ![t].pc = "then2"]
    /\ UNCHANGED << userInputValue, gateVars, chat, keyVars, tokenVars, timers,
                    aborted >>

RECURSIVE JoinTexts(_)
\* parts.map(p => p.text || '').join('')
JoinTexts(parts) ==
    IF parts = <<>> THEN <<>> ELSE Head(parts).text \o JoinTexts(Tail(parts))

\* The extracted text is used as it is joined, without trim().
ExtractReplyNoTrim(data) ==
    IF data.isArray /\ Len(data.candidates) > 0 /\ data.candidates[1].hasParts
    THEN LET parts == data.candidates[1].parts IN
         IF \E i \in 1..Len(parts) : ~parts[i].isObj
         THEN [threw |-> TRUE, reply |-> <<>>]
         ELSE [threw |-> FALSE, reply |-> JoinTexts(parts)]
    ELSE [threw |-> FALSE, reply |-> <<>>]

\* Lines 143-149: reply is the extracted text; threw when reading p.text of
\* a part that is no object raises a TypeError.
ExtractReply(data) ==
    IF data.isArray /\ Len(data.candidates) > 0 /\ data.candidates[1].hasParts
    THEN LET parts == data.candidates[1].parts IN
         IF \E i \in 1..Len(parts) : ~parts[i].isObj
         THEN [threw |-> TRUE, reply |-> <<>>]
         ELSE [threw |-> FALSE, reply |-> Trim(JoinTexts(parts))]
    ELSE [threw |-> FALSE, reply |-> <<>>]

\* The second reaction (lines 136-155).
Then2(t) ==
    /\ turns[t].pc = "then2"
    /\ LET was == Attached(chat, t)
           c == IF was THEN removeChild(chat, t) ELSE chat
           done == IF was THEN << "unplaceholder" >> ELSE << >>
           x == ExtractReply(turns[t].data)
       IN IF x.threw
          THEN /\ chat' = c
               /\ turns' = [turns EXCEPT
                              ![t].pc = "catch",
                              ![t].error = Err("TypeError", <<"Cannot read properties of null">>),
                              ![t].effects = Do(t, done)]
          ELSE /\ chat' = addMessage(c, IF x.reply = <<>> THEN NoReplyMsg ELSE x.reply, "ai")
               /\ turns' = [turns EXCEPT ![t].pc = "finally",
                                         ![t].effects = Do(t, done \o << "ai" >>)]
    /\ UNCHANGED << userInputValue, gateVars, keyVars, tokenVars, timers,
                    aborted >>

\* Every error counts as a timeout.
TimedOutAnyError(error) == error # NoError

\* const timedOut = error && (error.name === 'AbortError');
TimedOut(error) == error.name = "AbortError"

\* The hint is appended whatever the credential lookup returns.
HintAlways(apiKey) == HintMsg

\* Line 163: the hint, for the value the credential lookup returned.
Hint(apiKey) == IF apiKey # << >> THEN << >> ELSE HintMsg

\* Lines 164-166: the text rendered by the rejection handler.
FailureText(timedOut, hint) ==
    IF timedOut THEN TimeoutMsg \o hint ELSE FailureMsg \o hint

\* The rejection handler shows the message of the error it caught.
CatchShowsError(t) ==
    /\ turns[t].pc = "catch"
    /\ LET was == Attached(chat, t)
           c == IF was THEN removeChild(chat, t) ELSE chat
           done == (IF was THEN << "unplaceholder" >> ELSE << >>) \o << "log" >>
       IN \E rd \in ReadCredential :
             IF rd.threw
             THEN /\ chat' = c
                  /\ turns' = [turns EXCEPT ![t].pc = "finally",
                                            ![t].effects = Do(t, Append(done, "threw"))]
             ELSE /\ chat' = addMessage(c, FailureMsg \o turns[t].error.message, "ai")
                  /\ turns' = [turns EXCEPT ![t].pc = "finally",
                                            ![t].effects = Do(t, Append(done, "ai"))]
    /\ UNCHANGED << userInputValue, gateVars, keyVars, tokenVars, timers,
                    aborted >>

\* The rejection handler (lines 156-168).  The credential lookup for the
\* hint can throw; the handler then ends before addMessage.
Catch(t) ==
    /\ turns[t].pc = "catch"
    /\ LET was == Attached(chat, t)
           c == IF was THEN removeChild(chat, t) ELSE chat
           done == (IF was THEN << "unplaceholder" >> ELSE << >>) \o << "log" >>
       IN \E rd \in ReadCredential :
             IF rd.threw
             THEN /\ chat' = c
                  /\ turns' = [turns EXCEPT ![t].pc = "finally",
                                            ![t].effects = Do(t, Append(done, "threw"))]
             ELSE /\ chat' = addMessage(c, FailureText(TimedOut(turns[t].error),
                                                       Hint(rd.value)), "ai")
                  /\ turns' = [turns EXCEPT ![t].pc = "finally",
                                            ![t].effects = Do(t, Append(done, "ai"))]
    /\ UNCHANGED << userInputValue, gateVars, keyVars, tokenVars, timers,
                    aborted >>

\* The finally handler also forgets the credential.
FinallyForgetsKey(t) ==
    /\ turns[t].pc = "finally"
    /\ timers' = timers \ {t}
    /\ userInputDisabled' = FALSE
    /\ sendButtonDisabled' = FALSE
    /\ GEMINI_API_KEY' = << >>
    /\ turns' = [turns EXCEPT ![t] = Turn("done", turns[t].message,
                                          Do(t, << "clearTimeout", "unlock", "focus" >>))]
    /\ UNCHANGED << userInputValue, chat, storedKey, tokenVars, aborted >>

\* The finally handler (lines 169-175).  The chain has ended: the values it
\* passed along (response, data, error) are released.
Finally(t) ==
    /\ turns[t].pc = "finally"
    /\ timers' = timers \ {t}
    /\ userInputDisabled' = FALSE
    /\ sendButtonDisabled' = FALSE
    /\ turns' = [turns EXCEPT ![t] = Turn("done", turns[t].message,
                                          Do(t, << "clearTimeout", "unlock", "focus" >>))]
    /\ UNCHANGED << userInputValue, chat, keyVars, tokenVars, aborted >>

Next ==
    \/ TypeMessage
    \/ TypeToken
    \/ SaveClick
    \/ LabelTimer
    \/ sendMessage
    \/ \E t \in TurnIds : FetchResolve(t)
    \/ \E t \in TurnIds : FetchReject(t)
    \/ \E t \in TurnIds : BodySettle(t)
    \/ \E t \in TurnIds : TimerFire(t)
    \/ \E t \in TurnIds : Then1(t)
    \/ \E t \in TurnIds : Then2(t)
    \/ \E t \in TurnIds : Catch(t)
    \/ \E t \in TurnIds : Finally(t)

Spec == Init /\ [][Next]_vars

\* ------------------------------------------------------------------ properties
\* The token occurs in the sequence.
Contains(s, tok) == \E i \in 1..Len(s) : s[i] = tok

Count(s, e) == Cardinality({ i \in 1..Len(s) : s[i] = e })

\* Call t has done e.
Has(t, e) == Contains(turns[t].effects, e)

\* The text is empty or whitespace only.
IsBlank(s) == \A i \in 1..Len(s) : s[i] = Blank

GateLocked == userInputDisabled /\ sendButtonDisabled
GateUnlocked == ~userInputDisabled /\ ~sendButtonDisabled

\* No call has a request outstanding or a reaction left to run.
Quiescent == \A t \in TurnIds : ~InFlight(t)

TypingNodes == { i \in 1..Len(chat) : chat[i].typing }

\* Everything a call of sendMessage could touch.
sendVars ==
    << userInputValue, gateVars, chat, keyVars, tokenVars, turns, timers, aborted >>

\* C1: every Turn ends with the Input Gate unlocked: once an accepted call
\* has no request outstanding and no reaction left to run, userInput and
\* sendButton are enabled again.
C1_GateUnlockedWhenTurnOver == Quiescent => GateUnlocked

\* C2: at most one Turn is in flight: at most one call has a request
\* outstanding or a reaction pending, at most one typing placeholder is
\* attached, and every call but the latest has ended with its placeholder
\* gone; while a call is in flight the gate is locked.
C2_AtMostOneTurnInFlight ==
    /\ Cardinality({ t \in TurnIds : InFlight(t) }) <= 1
    /\ Cardinality({ t \in TurnIds : turns[t].pc \in { "fetching", "reading" } }) <= 1
    /\ Cardinality(TypingNodes) <= 1
    /\ \A t \in TurnIds : t < Len(turns) => turns[t].pc = "done" /\ ~Attached(chat, t)
    /\ \A t \in TurnIds : InFlight(t) => GateLocked

\* A second Turn is in flight after the first has ended.
C2_Witness ==
    /\ Len(turns) = 2
    /\ turns[1].pc = "done"
    /\ turns[2].pc = "reading"
    /\ Attached(chat, 2)

\* C3: a call of sendMessage while the gate is locked changes nothing: no
\* node is added to the chat, no closure, timer or request is created, the
\* gate and the Turn in flight stay as they are.
C3_LockedCallIsNoOp ==
    [][(sendMessage /\ sendButtonDisabled) => UNCHANGED sendVars]_vars

\* A message is in the field while a request is outstanding and the gate is
\* locked: a click or Enter now is such a call.
C3_Witness ==
    /\ GateLocked
    /\ ~IsBlank(userInputValue)
    /\ \E t \in TurnIds : turns[t].pc = "fetching"

\* C4: a call of sendMessage with an empty or whitespace-only input renders
\* nothing, adds no placeholder, starts no timer and no request, and leaves
\* the gate as it was (unlocked when it was unlocked).
C4_BlankInputIsNoOp ==
    [][(sendMessage /\ IsBlank(userInputValue)) => UNCHANGED sendVars]_vars

\* A whitespace-only input is in the field with the gate unlocked and
\* nothing rendered: a click or Enter now is such a call.
C4_Witness ==
    /\ userInputValue = << Blank >>
    /\ GateUnlocked
    /\ chat = << >>

\* C5: an accepted submission made while no credential is configured
\* (window.GEMINI_API_KEY unset, nothing persisted) renders the user
\* message and then the request for the credential, issues no request,
\* leaves no placeholder and ends with the gate unlocked.
C5_NoCredentialTurn ==
    [][(/\ sendMessage
        /\ ~sendButtonDisabled
        /\ ~IsBlank(userInputValue)
        /\ GEMINI_API_KEY = << >>
        /\ storedKey = << >>)
       => LET t == Len(turns) + 1 IN
          /\ chat' = chat \o << MessageNode(Trim(userInputValue), "user"),
                                MessageNode(KeyRequiredMsg, "ai") >>
          /\ turns'[t].pc = "done"
          /\ ~Contains(turns'[t].effects, "fetch")
          /\ ~userInputDisabled'
          /\ ~sendButtonDisabled']_vars

\* C6: the typing placeholder of a Turn is removed exactly once on every
\* outcome: a call with nothing left to run has removed its placeholder
\* once and the placeholder is detached; with the gate unlocked no typing
\* placeholder is attached.
C6_PlaceholderRemovedOnce ==
    /\ \A t \in TurnIds :
          ~InFlight(t) =>
             /\ ~Attached(chat, t)
             /\ Count(turns[t].effects, "unplaceholder") = 1
    /\ GateUnlocked => TypingNodes = {}

\* The final message of the call whose reaction has just rendered it.
LastText == chat[Len(chat)].text

\* C7: a Turn whose cancellation timer fired before finalization, while the
\* request was outstanding or the body was being read, renders the timeout
\* notice and not the generic failure notice.
C7_AbortIsTimeout ==
    \A t \in TurnIds :
       (turns[t].pc = "finally" /\ t \in aborted /\ Has(t, "ai"))
          => LastText \in { TimeoutMsg, TimeoutMsg \o HintMsg }

\* Call t got a failure status with a parsed body holding error.message,
\* and was not aborted.
ApiErrorAnswered(t) ==
    /\ turns[t].response.status # 0
    /\ ~ResponseOk(turns[t].response)
    /\ turns[t].response.json
    /\ turns[t].response.data.hasError
    /\ turns[t].response.data.errMessage # << >>
    /\ t \notin aborted

\* C8 as claimed: the assistant message rendered for a failure status with
\* error.message in the body contains that message.
C8_ApiErrorMessageRendered ==
    \A t \in TurnIds :
       (turns[t].pc = "finally" /\ Has(t, "ai") /\ ApiErrorAnswered(t))
          => \A i \in 1..Len(turns[t].response.data.errMessage) :
                Contains(LastText, turns[t].response.data.errMessage[i])

\* C8 as amended: for a failure status with error.message in the body, the
\* Error handed to the rejection handler (and logged) carries
\* "API error: " followed by that message, and the assistant message
\* rendered is the generic failure notice, with or without the hint.
C8_ApiErrorMessageOnlyThrown ==
    \A t \in TurnIds :
       ApiErrorAnswered(t) =>
          /\ turns[t].pc = "catch" =>
                turns[t].error =
                   Err("Error", <<"API error: ">> \o turns[t].response.data.errMessage)
          /\ (turns[t].pc = "finally" /\ Has(t, "ai")) =>
                LastText \in { FailureMsg, FailureMsg \o HintMsg }

\* HTTP 429 with "quota exceeded" in the body has been answered with the
\* generic failure notice.
C8_Witness ==
    \E t \in TurnIds :
       /\ turns[t].pc = "finally"
       /\ Has(t, "ai")
       /\ ApiErrorAnswered(t)
       /\ turns[t].response.status = 429
       /\ turns[t].response.data = DataQuota
       /\ LastText = FailureMsg

AiMessages == { i \in 1..Len(chat) : chat[i].cls = "ai-message" /\ ~chat[i].typing }

\* C9: every accepted Turn renders exactly one assistant message: a call
\* with nothing left to run has rendered one, and with no call in flight
\* the chat holds one assistant message per Turn.
C9_ExactlyOneAssistantMessage ==
    /\ \A t \in TurnIds : ~InFlight(t) => Count(turns[t].effects, "ai") = 1
    /\ Quiescent => Cardinality(AiMessages) = Len(turns)

TurnOrder == << "user", "placeholder", "unplaceholder", "ai", "unlock" >>

IsPrefix(a, b) == Len(a) <= Len(b) /\ a = SubSeq(b, 1, Len(a))

\* What call t has done so far, of the five effects the order is about.
Ordered(t) ==
    SelectSeq(turns[t].effects,
              LAMBDA e : e \in { "user", "placeholder", "unplaceholder", "ai", "unlock" })

\* C10: within a Turn the effects come in the order user message,
\* placeholder shown, placeholder removed, final assistant message, gate
\* unlocked: what a call has done so far is always a prefix of that order
\* (no unlock before the final message, no removal after it), and a call
\* with nothing left to run has done all five.
C10_EffectsInOrder ==
    \A t \in TurnIds :
       /\ IsPrefix(Ordered(t), TurnOrder)
       /\ ~InFlight(t) => Ordered(t) = TurnOrder

RECURSIVE SumFetch(_)
SumFetch(n) ==
    IF n = 0 THEN 0 ELSE Count(turns[n].effects, "fetch") + SumFetch(n - 1)

\* The number of fetch calls made so far.
Requests == SumFetch(Len(turns))

\* The step is an accepted submission whose credential read returned a
\* credential (cached, or persisted and read without an exception).
FoundCredential ==
    /\ Len(turns') = Len(turns) + 1
    /\ turns'[Len(turns')].pc # "threw"
    /\ GEMINI_API_KEY # << >> \/ storedKey # << >>

\* C11: each accepted submission that finds a credential issues exactly one
\* request and nothing else ever issues one (no retry): every step raises
\* the number of requests by one if it is such a submission and leaves it
\* as it is otherwise.
C11_OneRequestPerTurn ==
    [][Requests' = Requests + (IF FoundCredential THEN 1 ELSE 0)]_vars

\* Two Turns have ended: the first issued its one request, which failed;
\* the second found no credential and issued none.
C11_Witness ==
    /\ Len(turns) = 2
    /\ turns[1].pc = "done"
    /\ turns[2].pc = "done"
    /\ Has(1, "fetch")
    /\ Has(1, "log")
    /\ ~Has(2, "fetch")
    /\ Requests = 1

\* C12: the cancellation timer of a Turn is cleared by the time the Turn
\* ends: once a call has ended and the gate is unlocked, its timer is no
\* longer pending.
C12_TimerClearedWhenTurnEnds ==
    \A t \in TurnIds : (turns[t].pc = "done" /\ GateUnlocked) => t \notin timers

\* C13 as stated: while a Turn is in flight the credential, cached and
\* persisted, does not change.
C13_CredentialFixedInFlight ==
    [][(\E t \in TurnIds : InFlight(t)) => UNCHANGED keyVars]_vars

\* C13, amended: sendMessage and its reactions never write the credential;
\* every change of the cached or the persisted value is a step of the
\* save/clear handler, which can run while a Turn is in flight.
C13_OnlySaveClickWritesCredential ==
    [][keyVars' # keyVars => SaveClick]_vars

\* A request is outstanding although neither the cache nor the storage holds
\* a credential: it was cleared after the request was issued.
C13_Witness ==
    \E t \in TurnIds :
        /\ turns[t].pc = "fetching"
        /\ GEMINI_API_KEY = << >>
        /\ storedKey = << >>

\* Parsed bodies without extractable text: no candidates, no candidates
\* array, no parts, only whitespace and empty text.
NoTextBodies == { DataNoCandidates, DataEmptyObject, DataNoParts, DataBlankText }

\* Call t got HTTP 200 with a body that parses to one of NoTextBodies, and
\* the body was read without the request being aborted.
NoTextAnswered(t) ==
    /\ turns[t].response.status = 200
    /\ turns[t].response.json
    /\ turns[t].response.data \in NoTextBodies
    /\ t \notin aborted

\* C14: on HTTP 200 with a body without extractable text the Turn renders the
\* fixed "could not generate a response" message through the success path:
\* the rejection handler is never entered (no position "catch", nothing
\* logged) and the message rendered is NoReplyMsg.
C14_EmptyReplyIsSuccess ==
    \A t \in TurnIds :
        NoTextAnswered(t) =>
            /\ turns[t].pc # "catch"
            /\ ~Has(t, "log")
            /\ turns[t].pc = "finally" => (Has(t, "ai") /\ LastText = NoReplyMsg)

\* A whitespace-only reply has been answered with NoReplyMsg.
C14_Witness ==
    \E t \in TurnIds :
        /\ NoTextAnswered(t)
        /\ turns[t].response.data = DataBlankText
        /\ turns[t].pc = "finally"
        /\ LastText = NoReplyMsg

\* The notices of the rejection handler, with and without the hint.
FixedNotices ==
    { TimeoutMsg, FailureMsg, TimeoutMsg \o HintMsg, FailureMsg \o HintMsg }

\* Call t's rejection handler has just rendered its message.
FailureRendered(t) ==
    turns[t].pc = "finally" /\ Has(t, "log") /\ Has(t, "ai")

\* C15: on every failure path the assistant message rendered is one of the
\* fixed notices, optionally followed by the hint, and holds nothing of the
\* message of the error caught (status code, API error text).
C15_OnlyFixedNotices ==
    \A t \in TurnIds :
        FailureRendered(t) =>
            /\ LastText \in FixedNotices
            /\ \A k \in 1..Len(turns[t].error.message) :
                  ~Contains(LastText, turns[t].error.message[k])

\* The failure of an API error status with an embedded message has been
\* rendered.
C15_Witness ==
    \E t \in TurnIds :
        /\ FailureRendered(t)
        /\ turns[t].response.status = 429
        /\ turns[t].error.message = << "API error: ", "quota exceeded" >>
        /\ LastText = FailureMsg

\* C16: a storage read that throws during a Turn does not escape the Turn:
\* once the call has nothing left to run its placeholder is removed, it has
\* rendered one assistant message, and the gate is unlocked when no call is
\* in flight.
C16_StorageThrowHandled ==
    \A t \in TurnIds :
        (Has(t, "threw") /\ ~InFlight(t)) =>
            /\ ~Attached(chat, t)
            /\ Count(turns[t].effects, "ai") = 1
            /\ Quiescent => GateUnlocked

\* The two timeout notices.
TimeoutNotices == { TimeoutMsg, TimeoutMsg \o HintMsg }

\* C17: the timeout notice is rendered for a Turn only if that Turn's
\* cancellation timer fired: a call that has just rendered a timeout notice
\* has an aborted signal.
C17_TimeoutNoticeOnlyAfterTimer ==
    \A t \in TurnIds :
        (turns[t].pc = "finally" /\ Has(t, "ai") /\ LastText \in TimeoutNotices)
            => t \in aborted

\* A call whose timer fired has rendered the timeout notice.
C17_Witness ==
    \E t \in TurnIds :
        /\ turns[t].pc = "finally"
        /\ Has(t, "ai")
        /\ LastText = TimeoutMsg
        /\ t \in aborted

\* C18: a save or clear that fails at the persistence step leaves the cached
\* credential as it was (every step that ends with the label "Save Failed"
\* keeps window.GEMINI_API_KEY), and an accepted submission that finds the
\* cached credential issues the request.
C18_FailedSaveKeepsCachedKey ==
    [][/\ saveBtnText' = "Save Failed" => GEMINI_API_KEY' = GEMINI_API_KEY
       /\ (Len(turns') = Len(turns) + 1 /\ GEMINI_API_KEY # << >>) =>
             /\ turns'[Len(turns')].pc = "fetching"
             /\ turns'[Len(turns')].apiKey = GEMINI_API_KEY
             /\ Count(turns'[Len(turns')].effects, "fetch") = 1]_vars

\* The handler has reported a failed save or clear, the cached credential is
\* still there, and a request was issued with it.
C18_Witness ==
    /\ saveBtnText = "Save Failed"
    /\ GEMINI_API_KEY # << >>
    /\ \E t \in TurnIds :
          /\ turns[t].pc = "fetching"
          /\ turns[t].apiKey = GEMINI_API_KEY

\* C19: a cancellation timer affects only the Turn that started it: when the
\* timer of a call that has nothing left to run fires, no call's closure
\* changes (no request is aborted, no outcome changes), no message is
\* rendered, the gate stays as it is, and only that call's signal is aborted.
C19_LateTimerTouchesOwnTurnOnly ==
    [][\A t \in TurnIds :
          (t \in timers /\ t \notin timers' /\ ~InFlight(t)) =>
              /\ turns' = turns
              /\ chat' = chat
              /\ UNCHANGED gateVars
              /\ aborted' = aborted \cup {t}]_vars

\* The timer of the finished first Turn has fired; the second Turn's request
\* is outstanding, its own timer pending and its signal not aborted.
C19_Witness ==
    /\ Len(turns) = 2
    /\ turns[1].pc = "done"
    /\ 1 \in aborted
    /\ turns[2].pc = "fetching"
    /\ 2 \in timers
    /\ 2 \notin aborted

\* The two notices followed by the hint.
HintedNotices == { TimeoutMsg \o HintMsg, FailureMsg \o HintMsg }

\* window.GEMINI_API_KEY || localStorage['gemini_api_key'], as stored.
CurrentCredential == IF GEMINI_API_KEY # << >> THEN GEMINI_API_KEY ELSE storedKey

\* C20: a failure notice carries the hint only in a Turn during which the
\* credential was cleared after the request was issued (the request had a
\* credential, now there is none); a Turn whose credential is what the
\* request was issued with renders its notice without the hint.
C20_HintOnlyAfterClearInFlight ==
    \A t \in TurnIds :
        FailureRendered(t) =>
            /\ LastText \in HintedNotices =>
                  (turns[t].apiKey # << >> /\ CurrentCredential = << >>)
            /\ CurrentCredential = turns[t].apiKey =>
                  LastText \in { TimeoutMsg, FailureMsg }

\* A failure notice with the hint has been rendered for a request that was
\* issued with a credential.
C20_Witness ==
    \E t \in TurnIds :
        /\ FailureRendered(t)
        /\ LastText = FailureMsg \o HintMsg
        /\ turns[t].apiKey # << >>
        /\ CurrentCredential = << >>

====
